---- MODULE Spec2Model ----
(***************************************************************************)
(* Organization role / permission engine and invitation lifecycle of the   *)
(* Splarve backend.  The relational store is the state; every service      *)
(* method is a deterministic step function over a snapshot of the store    *)
(* and the call's own locals, one step per store round trip.  The          *)
(* sequential specification runs a handler to completion in one action;    *)
(* the concurrent specification interleaves the steps of in-flight calls.  *)
(*                                                                         *)
(* Three copies of the service code exist in the repository and all are    *)
(* modelled, told apart by the call's impl field:                          *)
(*   "routes"      organizationService as defined in organization.routes.ts*)
(*   "service"     organizationService as defined in organization.service.ts*)
(*   "currentUser" currentUserService in currentUser.service.ts            *)
(* removeMemberFromOrganization is modelled from the copy in               *)
(* organization.routes.ts.                                                 *)
(***************************************************************************)
EXTENDS Integers, FiniteSets, Sequences, TLC

\* ---------------------------------------------------------------- bounds
MaxRoles == 4
MaxInvitations == 2
TickHours == 72
MaxClock == 144
MaxCalls == 2

\* ------------------------------------------------------ program constants
INVITATION_EXPIRY_HOURS == 72
DEFAULT_ORG_ADMIN_ROLE_NAME == "Owner"
DEFAULT_ORG_MEMBER_ROLE_NAME == "Member"

\* ------------------------------------------------------------ input sets
Users == {"u1", "u2", "u3"}
Handles == {"acme", "zeta"}
InvitedEmails == {"b@x", "B@x"}
RoleNameInputs == {"Owner", "Editor"}
NoName == "<undefined>"
NoEmail == "<null>"
PermissionCatalog == {"members:invite", "roles:assign"}
NoPerms == {"<undefined>"}
PermissionIdInputs == {{}, {"roles:assign"}, {"bogus:perm"}}
RoleIds == 1..MaxRoles
Tokens == 1..MaxInvitations
Procs == 1..MaxCalls
\* the users who create organizations
Creators == {"u1", "u2"}
\* the users who answer invitations while other calls are in flight
Invitees == {"u2"}
\* the users who answer invitations one call at a time: the owner, whose
\* address is never the invited one, and the invited user
Callers == {"u1", "u2"}

\* req.user.email of the authenticated caller
EmailOf(u) == CASE u = "u1" -> "a@x" [] u = "u2" -> "b@x" [] OTHER -> "c@x"

\* String.prototype.toLowerCase over the e-mail alphabet of the model
ToLower(e) == IF e = "B@x" THEN "b@x" ELSE e

VARIABLES organizations, organization_roles, organization_role_permissions,
          organization_members, organization_invitations,
          clock, nextOrg, nextRole, nextInv, calls, last

storeVars == <<organizations, organization_roles, organization_role_permissions,
               organization_members, organization_invitations,
               clock, nextOrg, nextRole, nextInv>>
vars == <<organizations, organization_roles, organization_role_permissions,
          organization_members, organization_invitations,
          clock, nextOrg, nextRole, nextInv, calls, last>>

\* ------------------------------------------------------------- the store
\* A snapshot of the store, the argument and result of every step function.
Db == [orgs |-> organizations, roles |-> organization_roles,
       rolePerms |-> organization_role_permissions,
       members |-> organization_members, invs |-> organization_invitations,
       clock |-> clock, nextOrg |-> nextOrg, nextRole |-> nextRole,
       nextInv |-> nextInv]

Commit(d) ==
    /\ organizations' = d.orgs
    /\ organization_roles' = d.roles
    /\ organization_role_permissions' = d.rolePerms
    /\ organization_members' = d.members
    /\ organization_invitations' = d.invs
    /\ clock' = d.clock
    /\ nextOrg' = d.nextOrg
    /\ nextRole' = d.nextRole
    /\ nextInv' = d.nextInv

EmptyDb == [orgs |-> {}, roles |-> {}, rolePerms |-> {}, members |-> {},
            invs |-> {}, clock |-> 0, nextOrg |-> 1, nextRole |-> 1,
            nextInv |-> 1]

\* Columns of public.organization_invitations
InvitationColumns == {"invitation_id", "org_id", "invited_email",
                      "invited_by_user_id", "role_to_assign_id", "token",
                      "status", "expires_at", "created_at", "updated_at"}

NoInv == [id |-> 0, org |-> 0, email |-> NoEmail, role |-> 0,
          status |-> "", expires |-> 0]

\* ------------------------------------------------------------ call records
NoCall == [op |-> "none", impl |-> "", pc |-> "idle", code |-> 0, msg |-> "",
           org |-> 0, user |-> "", target |-> "", role |-> 0, token |-> 0,
           email |-> NoEmail, name |-> NoName, perms |-> NoPerms,
           handle |-> "", inv |-> NoInv, count |-> -1, fault |-> FALSE]

Finish(c, code, msg) == [c EXCEPT !.pc = "done", !.code = code, !.msg = msg]
Goto(c, pc) == [c EXCEPT !.pc = pc]
R(d, c) == [d |-> d, c |-> c]

\* ------------------------------------------------- store-level operations
\* INSERT INTO organization_members: UNIQUE(org_id, user_id),
\* UNIQUE(org_id, email) (NULLs never collide), FK org_role_id.
InsertMemberError(d, row) ==
    IF \E m \in d.members : m.org = row.org /\ m.user = row.user THEN "23505"
    ELSE IF row.email # NoEmail
            /\ \E m \in d.members : m.org = row.org /\ m.email = row.email
         THEN "23505"
    ELSE IF ~ \E r \in d.roles : r.id = row.role THEN "23503"
    ELSE ""

\* UPDATE organization_invitations SET <cols> WHERE invitation_id = id.
\* A payload key that is no column of the table is rejected by the store.
UpdateInvitationError(cols) ==
    IF cols \subseteq InvitationColumns THEN "" ELSE "PGRST204"

\* Fault variant: the status update of an invitation writes nothing.
SetInvitationStatusLost(d, id, status) == d

\* update({ status }).eq("invitation_id", id)
SetInvitationStatus(d, id, status) ==
    [d EXCEPT !.invs = {IF i.id = id THEN [i EXCEPT !.status = status] ELSE i
                        : i \in d.invs}]

\* DELETE FROM organization_roles WHERE org_role_id = rid, with the
\* ON DELETE CASCADE of role permissions, members and invitations.
DeleteRoleCascade(d, rid) ==
    [d EXCEPT !.roles = {r \in d.roles : r.id # rid},
              !.rolePerms = {rp \in d.rolePerms : rp.role # rid},
              !.members = {m \in d.members : m.role # rid},
              !.invs = {i \in d.invs : i.role # rid}]

\* ------------------------------------------------------ createOrganization
\* Fault variant: the Owner role is given no permission.
OwnerRolePermissionsNone(ownerRoleId) == {}

\* Step 3: every row of app_permissions, attached to the Owner role.
OwnerRolePermissions(ownerRoleId) ==
    {[role |-> ownerRoleId, perm |-> p] : p \in PermissionCatalog}

\* Steps 1-4 of createOrganization: organization row, Owner and Member
\* system roles, the whole permission catalog for Owner, creator as Owner.
CreateOrganization(d, c) ==
    IF \E o \in d.orgs : o.handle = c.handle
    THEN R(d, Finish(c, 409, "handle_exists"))
    ELSE
      LET newOrgId == d.nextOrg
          ownerRoleId == d.nextRole
          memberRoleId == d.nextRole + 1
          ownerRole == [id |-> ownerRoleId, org |-> newOrgId,
                        name |-> DEFAULT_ORG_ADMIN_ROLE_NAME, sys |-> TRUE]
          memberRole == [id |-> memberRoleId, org |-> newOrgId,
                         name |-> DEFAULT_ORG_MEMBER_ROLE_NAME, sys |-> TRUE]
          ownerRolePermissions == OwnerRolePermissions(ownerRoleId)
          creatorRow == [org |-> newOrgId, user |-> c.user,
                         role |-> ownerRoleId, email |-> c.email]
          d1 == [d EXCEPT !.orgs = @ \cup {[id |-> newOrgId, handle |-> c.handle]},
                          !.nextOrg = @ + 1,
                          !.roles = @ \cup {ownerRole, memberRole},
                          !.nextRole = @ + 2,
                          !.rolePerms = @ \cup ownerRolePermissions]
      IN \* no step undoes an earlier one: when the insert of the creator's
         \* membership fails (c.fault: the request itself fails), the
         \* organization, its two roles and the Owner permissions stay
         IF c.fault \/ InsertMemberError(d1, creatorRow) # ""
         THEN R(d1, Finish(c, 500, "owner_assign_failed"))
         ELSE R([d1 EXCEPT !.members = @ \cup {creatorRow}],
                Finish([c EXCEPT !.org = newOrgId, !.role = ownerRoleId],
                       201, "created"))

\* Fault variant: the lookup is not narrowed to the organization.
RoleInAnyOrg(d, org, rid) == {r \in d.roles : r.id = rid}

\* ------------------------------------------------ inviteUserToOrganization
\* .eq("org_id", orgId).eq("org_role_id", roleId).single()
RoleInOrg(d, org, rid) == {r \in d.roles : r.org = org /\ r.id = rid}

\* expiresAt.setHours(expiresAt.getHours() + INVITATION_EXPIRY_HOURS)
ExpiresAt(now) == now + INVITATION_EXPIRY_HOURS

\* The tables the migrations create in schema public.
PublicTables ==
    {"organizations", "departments", "job_info", "app_permissions",
     "organization_roles", "organization_role_permissions",
     "organization_members", "organization_invitations"}

\* supabase.from(table): the client is created with the default schema, so
\* the request goes to public.<table>; a relation that is not there is
\* answered with an error.
FromError(table) == IF table \in PublicTables THEN "" ELSE "PGRST205"

\* The address the invitation is issued for: organization.service.ts
\* lower-cases it, the copy in organization.routes.ts keeps it as given.
InvitedEmail(c) == IF c.impl = "service" THEN ToLower(c.email) ELSE c.email

\* Fault variant: the check for a pending invitation finds none.
HasPendingInvitationNever(d, org, email) == FALSE

\* .eq("org_id", orgId).eq("invited_email", email).eq("status", "pending")
HasPendingInvitation(d, org, email) ==
    \E i \in d.invs : i.org = org /\ i.email = email /\ i.status = "pending"

InviteUserToOrganization(d, c) ==
    CASE c.pc = "start" ->
           \* Step 1: the role belongs to the organization
           IF RoleInOrg(d, c.org, c.role) = {}
           THEN R(d, Finish(c, 400, "role_not_in_org"))
           ELSE R(d, Goto(c, IF c.impl = "service" THEN "user_lookup"
                             ELSE "member_check"))
      [] c.pc = "user_lookup" ->
           \* Step 2a (service): supabase.from("users") by lower-cased e-mail
           IF FromError("users") # ""
           THEN R(d, Finish(c, 500, "user_lookup_failed"))
           ELSE IF \E u \in Users : EmailOf(u) = InvitedEmail(c)
           THEN R(d, Goto([c EXCEPT !.target =
                              CHOOSE u \in Users : EmailOf(u) = InvitedEmail(c)],
                          "member_check"))
           ELSE R(d, Goto(c, "pending_check"))
      [] c.pc = "member_check" ->
           \* routes, Step 1.5: a member row carries this e-mail
           \* (case-sensitive); service, Step 2a: the user found has a
           \* member row
           IF \E m \in d.members :
                 /\ m.org = c.org
                 /\ IF c.impl = "service" THEN m.user = c.target
                    ELSE m.email = c.email
           THEN R(d, Finish(c, 409, "already_member"))
           ELSE R(d, Goto(c, "pending_check"))
      [] c.pc = "pending_check" ->
           \* a pending invitation exists for this e-mail in this org
           IF HasPendingInvitation(d, c.org, InvitedEmail(c))
           THEN R(d, Finish(c, 409, "invitation_pending"))
           ELSE R(d, Goto(c, "insert"))
      [] OTHER ->
           \* token, expiry, insert (FK role_to_assign_id)
           IF ~ \E r \in d.roles : r.id = c.role
           THEN R(d, Finish(c, 500, "insert_failed"))
           ELSE LET row == [id |-> d.nextInv, org |-> c.org,
                            email |-> InvitedEmail(c),
                            role |-> c.role,
                            status |-> "pending",
                            expires |-> ExpiresAt(d.clock)]
                IN R([d EXCEPT !.invs = @ \cup {row}, !.nextInv = @ + 1],
                     Finish([c EXCEPT !.token = row.id], 201, "invited"))

\* ------------------------------------------- acceptInvitation / decline
\* Fault variant: no invitation ever counts as expired.
IsExpiredNever(inv, now) == FALSE

\* new Date(invitation.expires_at) < new Date()
IsExpired(inv, now) == inv.expires < now

\* Fault variant: every caller passes for the invited address.
EmailMatchesAnyone(impl, invited, given) == TRUE

\* Step 3 of accept and decline: the caller is the invited address.
\* organization.service.ts lower-cases both sides, the other two copies
\* compare the strings as they are.
EmailMatches(impl, invited, given) ==
    IF impl = "service" THEN ToLower(invited) = ToLower(given)
    ELSE invited = given

\* Fault variant: the caller's address is compared before the status and
\* the expiry are looked at.
InvitationGateEmailFirst(d, c, next) ==
    LET rows == {i \in d.invs : i.id = c.token}
    IN IF rows = {} THEN R(d, Finish(c, 404, "invalid_token"))
       ELSE LET invitation == CHOOSE i \in rows : TRUE
                c1 == [c EXCEPT !.inv = invitation]
            IN IF ~ EmailMatches(c.impl, invitation.email, c.email)
               THEN R(d, Finish(c1, 403, "email_mismatch"))
               ELSE IF invitation.status # "pending"
               THEN R(d, Finish(c1, 409, "already_" \o invitation.status))
               ELSE IF IsExpired(invitation, d.clock)
               THEN R(d, Goto(c1, "expire"))
               ELSE R(d, Goto(c1, next))

\* Steps 1-3 shared by accept and decline: token lookup, status, expiry,
\* e-mail.  next is the pc the handler continues at when all checks pass.
InvitationGate(d, c, next) ==
    LET rows == {i \in d.invs : i.id = c.token}
    IN IF rows = {} THEN R(d, Finish(c, 404, "invalid_token"))
       ELSE LET invitation == CHOOSE i \in rows : TRUE
                c1 == [c EXCEPT !.inv = invitation]
            IN IF invitation.status # "pending"
               THEN R(d, Finish(c1, 409, "already_" \o invitation.status))
               ELSE IF IsExpired(invitation, d.clock)
               THEN R(d, Goto(c1, "expire"))
               ELSE IF ~ EmailMatches(c.impl, invitation.email, c.email)
               THEN R(d, Finish(c1, 403, "email_mismatch"))
               ELSE R(d, Goto(c1, next))

\* update({ status: "expired" }).eq("invitation_id", ...), then 410
ExpireInvitation(d, c) ==
    R(SetInvitationStatus(d, c.inv.id, "expired"), Finish(c, 410, "expired"))

\* The columns the final update of the accept path writes.
AcceptUpdateColumns(impl) ==
    IF impl = "currentUser" THEN {"status"} ELSE {"status", "user_id"}

\* The row acceptInvitation inserts into organization_members.
AcceptMemberRow(c) ==
    [org |-> c.inv.org, user |-> c.user, role |-> c.inv.role,
     email |-> IF c.impl = "currentUser" THEN c.email ELSE NoEmail]

\* Fault variant: the already-member path also writes the invitation's role.
RefreshMemberAssignsRole(d, c) ==
    [d EXCEPT !.members =
       {IF m.org = c.inv.org /\ m.user = c.user
        THEN [m EXCEPT !.role = c.inv.role] ELSE m : m \in d.members}]

\* Step 5 of the already-member path: refresh the denormalized e-mail; a
\* failing update is logged and ignored.
RefreshMember(d, c) ==
    IF \E m \in d.members : m.org = c.inv.org /\ m.user # c.user
                            /\ m.email = c.email
    THEN d
    ELSE [d EXCEPT !.members =
            {IF m.org = c.inv.org /\ m.user = c.user
             THEN [m EXCEPT !.email = c.email] ELSE m : m \in d.members}]

\* Fault variant: the response names no organization and no role.
AcceptResponseEmpty(c) == c

\* return { message, organization_id: invitation.org_id,
\*          organization_handle, role_assigned_id: invitation.role_to_assign_id }
AcceptResponse(c) == [c EXCEPT !.org = c.inv.org, !.role = c.inv.role]

AcceptInvitation(d, c) ==
    CASE c.pc = "start" -> InvitationGate(d, c, "count")
      [] c.pc = "expire" -> ExpireInvitation(d, c)
      [] c.pc = "count" ->
           \* Step 4: is the user already a member
           LET memberCount == Cardinality({m \in d.members :
                                  m.org = c.inv.org /\ m.user = c.user})
               c1 == [c EXCEPT !.count = memberCount]
           IN IF c.impl = "currentUser"
              THEN R(d, Goto(c1, IF memberCount = 0 THEN "insert" ELSE "mark"))
              ELSE R(d, Goto(c1, IF memberCount > 0 THEN "already" ELSE "insert"))
      [] c.pc = "already" ->
           \* already a member: mark the invitation accepted
           R(SetInvitationStatus(d, c.inv.id, "accepted"), Goto(c, "refresh"))
      [] c.pc = "refresh" ->
           R(RefreshMember(d, c), Finish(AcceptResponse(c), 200, "accepted"))
      [] c.pc = "insert" ->
           \* Step 5: add the user to organization_members
           LET err == InsertMemberError(d, AcceptMemberRow(c))
           IN IF err = ""
              THEN R([d EXCEPT !.members = @ \cup {AcceptMemberRow(c)}],
                     Goto(c, "mark"))
              ELSE IF err = "23505" /\ c.impl # "currentUser"
              THEN R(d, Goto(c, "dup_mark"))
              ELSE R(d, Finish(c, 500, "add_member_failed"))
      [] c.pc = "dup_mark" ->
           R(SetInvitationStatus(d, c.inv.id, "accepted"),
             Finish(c, 409, "already_member_concurrent"))
      [] OTHER ->
           \* Step 6 ("mark"): update the invitation status to accepted
           IF UpdateInvitationError(AcceptUpdateColumns(c.impl)) # ""
           THEN R(d, Finish(c, 500, "invitation_update_failed"))
           ELSE IF c.impl # "currentUser"
                   /\ ~ \E i \in d.invs : i.id = c.inv.id
           THEN R(d, Finish(c, 500, "invitation_update_failed"))
           ELSE R(SetInvitationStatus(d, c.inv.id, "accepted"),
                  Finish(AcceptResponse(c), 200, "accepted"))

DeclineInvitation(d, c) ==
    CASE c.pc = "start" -> InvitationGate(d, c, "decline")
      [] c.pc = "expire" -> ExpireInvitation(d, c)
      [] OTHER ->
           \* Step 4: update the invitation status to declined
           R(SetInvitationStatus(d, c.inv.id, "declined"),
             Finish(c, 200, "declined"))

\* --------------------------------------------------------------- roles
\* INSERT INTO organization_roles: UNIQUE(org_id, role_name)
RoleNameTaken(d, org, name, exceptId) ==
    \E r \in d.roles : r.org = org /\ r.name = name /\ r.id # exceptId

\* INSERT INTO organization_role_permissions: FK permission_id
PermissionsInCatalog(perms) == perms \subseteq PermissionCatalog

\* Fault variant: the new permissions are added to the ones the role has.
SetRolePermissionsPatched(d, rid, perms) ==
    [d EXCEPT !.rolePerms = @ \cup {[role |-> rid, perm |-> p] : p \in perms}]

\* delete().eq("org_role_id", rid), then insert one row per permission id
SetRolePermissions(d, rid, perms) ==
    [d EXCEPT !.rolePerms = {rp \in @ : rp.role # rid}
                            \cup {[role |-> rid, perm |-> p] : p \in perms}]

\* Fault variant: createOrganizationRole inserts system roles.
NewRoleIsSystemTrue == TRUE

\* is_system_role of every role createOrganizationRole inserts
NewRoleIsSystem == FALSE

\* The answer of the store to the insert into organization_role_permissions:
\* the request itself can fail (c.fault), and a permission_id outside
\* app_permissions violates the foreign key.
PermissionInsertError(c, perms) ==
    IF c.fault THEN "request_failed"
    ELSE IF ~ PermissionsInCatalog(perms) THEN "23503"
    ELSE ""

\* Fault variant: nothing is undone when the permissions cannot be inserted.
CompensateRoleInsertNone(d, rid) == d

\* await supabase.from("organization_roles").delete()
\*   .eq("org_role_id", newRole.org_role_id)
CompensateRoleInsert(d, rid) == DeleteRoleCascade(d, rid)

CreateOrganizationRole(d, c) ==
    LET role == [id |-> d.nextRole, org |-> c.org, name |-> c.name,
                 sys |-> NewRoleIsSystem]
        withRole == [d EXCEPT !.roles = @ \cup {role}, !.nextRole = @ + 1]
        created == [c EXCEPT !.role = role.id]
    IN IF c.impl = "routes"
       THEN \* insert the role, insert the permissions, delete the role again
            \* when the permissions cannot be inserted
            IF RoleNameTaken(d, c.org, c.name, 0)
            THEN R(d, Finish(c, 500, "role_insert_failed"))
            ELSE IF PermissionInsertError(c, c.perms) # ""
            THEN R(CompensateRoleInsert(withRole, role.id),
                   Finish(c, 500, "permission_insert_failed"))
            ELSE R(SetRolePermissions(withRole, role.id, c.perms),
                   Finish(created, 201, "role_created"))
       ELSE \* Step 1 validates the permission ids, Step 2 inserts the role,
            \* Step 3 inserts the permissions when there are any
            IF ~ PermissionsInCatalog(c.perms)
            THEN R(d, Finish(c, 400, "invalid_permissions"))
            ELSE IF RoleNameTaken(d, c.org, c.name, 0)
            THEN R(d, Finish(c, 409, "role_name_exists"))
            ELSE IF c.perms # {} /\ PermissionInsertError(c, c.perms) # ""
            THEN R(withRole, Finish(c, 500, "role_created_permissions_failed"))
            ELSE R(SetRolePermissions(withRole, role.id, c.perms),
                   Finish(created, 201, "role_created"))

RenameRole(d, rid, name) ==
    [d EXCEPT !.roles = {IF r.id = rid THEN [r EXCEPT !.name = name] ELSE r
                         : r \in @}]

\* The guard of updateOrganizationRole on a system role: the routes copy
\* refuses every update, the service copy only a change of name.
UpdateRefusedForSystemRole(impl, existingRole, name) ==
    /\ existingRole.sys
    /\ \/ impl = "routes"
       \/ name # NoName /\ name # existingRole.name

UpdateOrganizationRole(d, c) ==
    LET rows == RoleInOrg(d, c.org, c.role)
    IN IF rows = {} THEN R(d, Finish(c, 404, "role_not_found"))
       ELSE
         LET existingRole == CHOOSE r \in rows : TRUE
         IN IF UpdateRefusedForSystemRole(c.impl, existingRole, c.name)
            THEN R(d, Finish(c, IF c.impl = "routes" THEN 403 ELSE 400,
                             "system_role"))
            ELSE IF c.impl = "service" /\ c.perms # NoPerms
                    /\ ~ PermissionsInCatalog(c.perms)
            THEN R(d, Finish(c, 400, "invalid_permissions"))
            ELSE IF c.name # NoName /\ RoleNameTaken(d, c.org, c.name, c.role)
            THEN R(d, Finish(c, IF c.impl = "routes" THEN 500 ELSE 409,
                             "role_name_exists"))
            ELSE
              LET renamed == IF c.name # NoName
                             THEN RenameRole(d, c.role, c.name) ELSE d
              IN IF c.perms = NoPerms THEN R(renamed, Finish(c, 200, "role_updated"))
                 ELSE IF /\ c.impl = "routes" \/ c.perms # {}
                         /\ PermissionInsertError(c, c.perms) # ""
                 THEN \* the old permissions are deleted, the new ones are not
                      \* inserted
                      R(SetRolePermissions(renamed, c.role, {}),
                        Finish(c, 500, "permission_insert_failed"))
                 ELSE R(SetRolePermissions(renamed, c.role, c.perms),
                        Finish(c, 200, "role_updated"))

\* Fault variant: the member count of deleteOrganizationRole finds nobody.
MembersWithRoleNone(d, rid) == 0

\* count of organization_members rows with this org_role_id
MembersWithRole(d, rid) == Cardinality({m \in d.members : m.role = rid})

DeleteOrganizationRole(d, c) ==
    CASE c.pc = "start" ->
           \* the role belongs to the organization and is no system role
           LET rows == RoleInOrg(d, c.org, c.role)
           IN IF rows = {} THEN R(d, Finish(c, 404, "role_not_found"))
              ELSE IF (CHOOSE r \in rows : TRUE).sys
              THEN R(d, Finish(c, IF c.impl = "routes" THEN 403 ELSE 400,
                               "system_role"))
              ELSE R(d, Goto(c, "count"))
      [] c.pc = "count" ->
           \* no member holds the role
           IF MembersWithRole(d, c.role) > 0
           THEN R(d, Finish(c, 409, "role_in_use"))
           ELSE R(d, Goto(c, "delete"))
      [] OTHER ->
           \* delete().eq("org_role_id", roleId)
           R(DeleteRoleCascade(d, c.role), Finish(c, 200, "role_deleted"))

\* ------------------------------------------------------------- members
\* if (memberUserId === operatorUserId): only the routes copy takes the
\* operator as a parameter.
SelfTargetRefused(impl, target, operator) ==
    impl = "routes" /\ target = operator

\* if (newRoleData.is_system_role): only in the routes copy
NewRoleRefused(impl, newRole) == impl = "routes" /\ newRole.sys

\* roles:organization_roles (is_system_role) of the member's current role
CurrentRoleIsSystem(d, member) ==
    \E r \in d.roles : r.id = member.role /\ r.sys

\* if (currentRoleIsSystem): only in the routes copy
CurrentRoleRefused(impl, d, member) ==
    impl = "routes" /\ CurrentRoleIsSystem(d, member)

\* UPDATE organization_members SET org_role_id: FK org_role_id; the
\* updated row is read back with .single()
UpdateMemberRoleError(d, org, user, rid) ==
    IF ~ \E r \in d.roles : r.id = rid THEN "23503"
    ELSE IF ~ \E m \in d.members : m.org = org /\ m.user = user THEN "PGRST116"
    ELSE ""

AssignOrganizationMemberRole(d, c) ==
    CASE c.pc = "start" ->
           IF SelfTargetRefused(c.impl, c.target, c.user)
           THEN R(d, Finish(c, 403, "self_role_change"))
           ELSE \* the new role belongs to the organization
             LET newRoles == RoleInOrg(d, c.org, c.role)
             IN IF newRoles = {} THEN R(d, Finish(c, 400, "role_not_in_org"))
                ELSE IF NewRoleRefused(c.impl, CHOOSE r \in newRoles : TRUE)
                THEN R(d, Finish(c, 403, "assign_system_role"))
                ELSE R(d, Goto(c, "member"))
      [] c.pc = "member" ->
           \* the target is a member of the organization
           LET memberRows == {m \in d.members :
                                m.org = c.org /\ m.user = c.target}
           IN IF memberRows = {} THEN R(d, Finish(c, 404, "not_a_member"))
              ELSE IF CurrentRoleRefused(c.impl, d, CHOOSE m \in memberRows : TRUE)
              THEN R(d, Finish(c, 403, "member_has_system_role"))
              ELSE R(d, Goto(c, "update"))
      [] OTHER ->
           \* update({ org_role_id: newRoleId })
           IF UpdateMemberRoleError(d, c.org, c.target, c.role) # ""
           THEN R(d, Finish(c, 500, "role_update_failed"))
           ELSE R([d EXCEPT !.members =
                     {IF m.org = c.org /\ m.user = c.target
                      THEN [m EXCEPT !.role = c.role] ELSE m : m \in @}],
                  Finish(c, 200, "role_assigned"))

\* Fault variant: the delete is not narrowed to the member to remove.
DeleteMemberOfAnyUser(d, org, user) ==
    [d EXCEPT !.members = {m \in @ : m.org # org}]

\* .from("organization_members").delete()
\*   .eq("org_id", orgId).eq("user_id", memberUserIdToRemove)
DeleteMember(d, org, user) ==
    [d EXCEPT !.members = {m \in @ : ~ (m.org = org /\ m.user = user)}]

RemoveMemberFromOrganization(d, c) ==
    IF c.target = c.user THEN R(d, Finish(c, 403, "self_removal"))
    ELSE
      LET memberRows == {m \in d.members : m.org = c.org /\ m.user = c.target}
      IN IF memberRows = {} THEN R(d, Finish(c, 404, "not_a_member"))
         ELSE IF CurrentRoleIsSystem(d, CHOOSE m \in memberRows : TRUE)
         THEN R(d, Finish(c, 403, "member_has_system_role"))
         ELSE R(DeleteMember(d, c.org, c.target),
                Finish(c, 200, "member_removed"))

\* --------------------------------------------------------- permissions
\* .from("organization_members").select("org_role_id")
\*   .eq("org_id", orgId).eq("user_id", userId).single():
\* the row when exactly one matches, PGRST116 otherwise.
MembershipOf(d, userId, orgId) ==
    {m \in d.members : m.org = orgId /\ m.user = userId}

\* Fault variant: the count ignores which permission is required.
PermissionCountAny(d, userOrgRoleId, requiredPermission) ==
    Cardinality({rp \in d.rolePerms : rp.role = userOrgRoleId})

\* .from("organization_role_permissions")
\*   .select("*", { count: "exact", head: true })
\*   .eq("org_role_id", userOrgRoleId).eq("permission_id", requiredPermission)
PermissionCount(d, userOrgRoleId, requiredPermission) ==
    Cardinality({rp \in d.rolePerms : rp.role = userOrgRoleId
                                      /\ rp.perm = requiredPermission})

\* checkPermission(requiredPermission): "allow" is next(), "deny" the 403.
checkPermission(d, userId, orgId, requiredPermission) ==
    LET memberData == MembershipOf(d, userId, orgId)
    IN IF Cardinality(memberData) # 1 THEN "deny"
       ELSE LET userOrgRoleId == (CHOOSE m \in memberData : TRUE).role
            IN IF PermissionCount(d, userOrgRoleId, requiredPermission) > 0
               THEN "allow" ELSE "deny"

getUserPermissionsForOrganization(d, userId, orgId) ==
    LET memberData == MembershipOf(d, userId, orgId)
    IN IF Cardinality(memberData) # 1 THEN {}
       ELSE {rp.perm : rp \in {x \in d.rolePerms :
                                 x.role = (CHOOSE m \in memberData : TRUE).role}}

\* ------------------------------------------------------------ dispatch
\* One step of a call: one store round trip and the code up to the next.
Step(d, c) ==
    CASE c.op = "createOrganization" -> CreateOrganization(d, c)
      [] c.op = "invite" -> InviteUserToOrganization(d, c)
      [] c.op = "accept" -> AcceptInvitation(d, c)
      [] c.op = "decline" -> DeclineInvitation(d, c)
      [] c.op = "createRole" -> CreateOrganizationRole(d, c)
      [] c.op = "updateRole" -> UpdateOrganizationRole(d, c)
      [] c.op = "deleteRole" -> DeleteOrganizationRole(d, c)
      [] c.op = "assignRole" -> AssignOrganizationMemberRole(d, c)
      [] OTHER -> RemoveMemberFromOrganization(d, c)

\* A call run to its end with no other call in between.
RECURSIVE Run(_, _)
Run(d, c) == IF c.pc = "done" THEN R(d, c)
             ELSE LET r == Step(d, c) IN Run(r.d, r.c)

NewCall(op, impl) == [NoCall EXCEPT !.op = op, !.impl = impl, !.pc = "start"]

\* The calls as the route handlers make them.
CreateOrganizationOf(h, u) ==
    [NewCall("createOrganization", "routes") EXCEPT
        !.handle = h, !.user = u, !.email = EmailOf(u)]
\* The same call when the store fails the insert of the creator's membership.
CreateOrganizationFailingOf(h, u) ==
    [CreateOrganizationOf(h, u) EXCEPT !.fault = TRUE]
InviteOf(i, o, e, r) ==
    [NewCall("invite", i) EXCEPT
        !.org = o, !.user = "u1", !.email = e, !.role = r]
AcceptOf(i, t, u) ==
    [NewCall("accept", i) EXCEPT !.token = t, !.user = u, !.email = EmailOf(u)]
DeclineOf(i, t, u) ==
    [NewCall("decline", i) EXCEPT !.token = t, !.user = u, !.email = EmailOf(u)]
CreateRoleOf(i, o, n, ps) ==
    [NewCall("createRole", i) EXCEPT !.org = o, !.name = n, !.perms = ps]
\* The same call when the store fails the insert of the role's permissions.
CreateRoleFailingOf(i, o, n, ps) ==
    [CreateRoleOf(i, o, n, ps) EXCEPT !.fault = TRUE]
UpdateRoleOf(i, o, r, n, ps) ==
    [NewCall("updateRole", i) EXCEPT
        !.org = o, !.role = r, !.name = n, !.perms = ps]
\* The same call when the store fails the insert of the new permissions.
UpdateRoleFailingOf(i, o, r, n, ps) ==
    [UpdateRoleOf(i, o, r, n, ps) EXCEPT !.fault = TRUE]
DeleteRoleOf(i, o, r) ==
    [NewCall("deleteRole", i) EXCEPT !.org = o, !.role = r]
AssignRoleOf(i, o, t, r, u) ==
    [NewCall("assignRole", i) EXCEPT
        !.org = o, !.target = t, !.role = r, !.user = u]
RemoveMemberOf(o, t, u) ==
    [NewCall("removeMember", "routes") EXCEPT
        !.org = o, !.target = t, !.user = u]

OrgIds == {o.id : o \in organizations}
OrgImpls == {"routes", "service"}
InvitationImpls == {"routes", "service", "currentUser"}

\* ------------------------------------------- sequential specifications
\* What a caller is left with once its call has returned: the status of
\* the response.
Returned(c) == [op |-> c.op, code |-> c.code]

Do(c) == LET r == Run(Db, c)
         IN Commit(r.d) /\ last' = Returned(r.c) /\ UNCHANGED calls

CreateOrganizationCall ==
    \E h \in Handles, u \in Creators :
       /\ nextRole + 1 <= MaxRoles
       /\ Do(CreateOrganizationOf(h, u))

InviteCall ==
    \E i \in OrgImpls, o \in OrgIds, e \in InvitedEmails, r \in RoleIds :
       /\ nextInv <= MaxInvitations
       /\ Do(InviteOf(i, o, e, r))

AcceptCall ==
    \E i \in InvitationImpls, t \in Tokens, u \in Callers :
       Do(AcceptOf(i, t, u))

DeclineCall ==
    \E i \in InvitationImpls, t \in Tokens, u \in Callers :
       Do(DeclineOf(i, t, u))

CreateRoleCall ==
    \E i \in OrgImpls, o \in OrgIds, n \in RoleNameInputs,
       ps \in PermissionIdInputs :
       /\ nextRole <= MaxRoles
       /\ \E c \in {CreateRoleOf(i, o, n, ps),
                    CreateRoleFailingOf(i, o, n, ps)} : Do(c)

UpdateRoleCall ==
    \E i \in OrgImpls, o \in OrgIds, r \in RoleIds,
       n \in RoleNameInputs \cup {NoName},
       ps \in PermissionIdInputs \cup {NoPerms} :
       /\ i = "routes" => n # NoName /\ ps # NoPerms
       /\ Do(UpdateRoleOf(i, o, r, n, ps))

DeleteRoleCall ==
    \E i \in OrgImpls, o \in OrgIds, r \in RoleIds :
       Do(DeleteRoleOf(i, o, r))

AssignRoleCall ==
    \E i \in OrgImpls, o \in OrgIds, t \in Users, r \in RoleIds, u \in Users :
       Do(AssignRoleOf(i, o, t, r, u))

RemoveMemberCall ==
    \E o \in OrgIds, t \in Users, u \in Users :
       Do(RemoveMemberOf(o, t, u))

\* new Date() moves on between requests
Tick ==
    /\ clock + TickHours <= MaxClock
    /\ clock' = clock + TickHours
    /\ UNCHANGED <<organizations, organization_roles,
                   organization_role_permissions, organization_members,
                   organization_invitations, nextOrg, nextRole, nextInv,
                   calls, last>>

\* The store holds exactly the snapshot d.
StoreIs(d) ==
    /\ organizations = d.orgs
    /\ organization_roles = d.roles
    /\ organization_role_permissions = d.rolePerms
    /\ organization_members = d.members
    /\ organization_invitations = d.invs
    /\ clock = d.clock
    /\ nextOrg = d.nextOrg
    /\ nextRole = d.nextRole
    /\ nextInv = d.nextInv

\* Organizations and their roles, from the empty store.
Init ==
    /\ StoreIs(EmptyDb)
    /\ calls = [p \in Procs |-> NoCall]
    /\ last = Returned(NoCall)

Next ==
    \/ CreateOrganizationCall
    \/ CreateRoleCall
    \/ UpdateRoleCall
    \/ DeleteRoleCall

Spec == Init /\ [][Next]_vars

\* The store after u1 has created the organization "acme".
AcmeDb == Run(EmptyDb, CreateOrganizationOf("acme", "u1")).d

\* The invitation lifecycle in one organization, one call at a time.
InitInv ==
    /\ StoreIs(AcmeDb)
    /\ calls = [p \in Procs |-> NoCall]
    /\ last = Returned(NoCall)

NextInv ==
    \/ InviteCall
    \/ AcceptCall
    \/ DeclineCall
    \/ Tick

SpecInv == InitInv /\ [][NextInv]_vars

\* The store after acme's owner has created the role Viewer and invited
\* b@x to it, and u2 has accepted through /me/invitations.
ViewerRoleId == AcmeDb.nextRole
TeamDb ==
    LET d1 == Run(AcmeDb, CreateRoleOf("service", 1, "Viewer",
                                       {"roles:assign"})).d
        d2 == Run(d1, InviteOf("routes", 1, EmailOf("u2"), ViewerRoleId)).d
    IN Run(d2, AcceptOf("currentUser", 1, "u2")).d

\* Roles and role assignment in an organization with an invited member.
InitMembers ==
    /\ StoreIs(TeamDb)
    /\ calls = [p \in Procs |-> NoCall]
    /\ last = Returned(NoCall)

NextMembers ==
    \/ CreateRoleCall
    \/ DeleteRoleCall
    \/ AssignRoleCall
    \/ RemoveMemberCall

SpecMembers == InitMembers /\ [][NextMembers]_vars

\* ------------------------------------------- concurrent specification
\* Requests are served concurrently: every await of a handler is a point
\* where the steps of another in-flight call may run.
InFlight(p) == calls[p].pc \notin {"idle", "done"}

\* Each slot of calls serves one request.
Begin(p, c) ==
    /\ calls[p].pc = "idle"
    /\ calls' = [calls EXCEPT ![p] = c]
    /\ UNCHANGED <<storeVars, last>>

BeginInvite(p) ==
    \E i \in OrgImpls, e \in InvitedEmails, r \in RoleIds :
       /\ nextInv + Cardinality({q \in Procs : InFlight(q)
                                    /\ calls[q].op = "invite"}) <= MaxInvitations
       /\ Begin(p, InviteOf(i, 1, e, r))

BeginAccept(p) ==
    \E i \in InvitationImpls, t \in Tokens, u \in Invitees :
       Begin(p, AcceptOf(i, t, u))

BeginDecline(p) ==
    \E i \in InvitationImpls, t \in Tokens, u \in Invitees :
       Begin(p, DeclineOf(i, t, u))

\* The next store round trip of the call in flight at p.
StepOf(p, op) ==
    /\ InFlight(p)
    /\ calls[p].op = op
    /\ LET r == Step(Db, calls[p])
       IN Commit(r.d) /\ calls' = [calls EXCEPT ![p] = r.c]
    /\ UNCHANGED last

StepInvite(p) == StepOf(p, "invite")
StepAccept(p) == StepOf(p, "accept")
StepDecline(p) == StepOf(p, "decline")

\* The store after acme's owner has invited b@x to the Member role.
InvitedDb ==
    Run(AcmeDb, InviteOf("routes", 1, EmailOf("u2"), 2)).d

InitConc ==
    /\ StoreIs(AcmeDb) \/ StoreIs(InvitedDb)
    /\ calls = [p \in Procs |-> NoCall]
    /\ last = Returned(NoCall)

NextConc ==
    \/ \E p \in Procs : BeginInvite(p)
    \/ \E p \in Procs : BeginAccept(p)
    \/ \E p \in Procs : BeginDecline(p)
    \/ \E p \in Procs : StepInvite(p)
    \/ \E p \in Procs : StepAccept(p)
    \/ \E p \in Procs : StepDecline(p)
    \/ Tick

SpecConc == InitConc /\ [][NextConc]_vars

\* ------------------------------------------------- two organizations
\* The store after u1 has created "acme" and u2 has created "zeta".
ZetaDb == Run(AcmeDb, CreateOrganizationOf("zeta", "u2")).d

\* u2 is invited to either organization, with any role id.
InviteToOrgCall ==
    \E o \in OrgIds, r \in RoleIds :
       /\ nextInv <= MaxInvitations
       /\ Do(InviteOf("routes", o, EmailOf("u2"), r))

\* u1 assigns any role id to itself or to u2, in either organization.
AssignByOwnerCall ==
    \E i \in OrgImpls, o \in OrgIds, t \in Callers, r \in RoleIds :
       Do(AssignRoleOf(i, o, t, r, "u1"))

InitOrgs ==
    /\ StoreIs(ZetaDb)
    /\ calls = [p \in Procs |-> NoCall]
    /\ last = Returned(NoCall)

\* Invitations, acceptance and role assignment across two organizations,
\* one call at a time.
NextOrgs ==
    \/ InviteToOrgCall
    \/ AcceptCall
    \/ AssignByOwnerCall

SpecOrgs == InitOrgs /\ [][NextOrgs]_vars

\* ------------------------------- concurrent role deletion and assignment
\* The store after acme's owner has created the role Viewer and invited
\* b@x to it; the invitation is pending.
PendingViewerDb ==
    LET d1 == Run(AcmeDb, CreateRoleOf("service", 1, "Viewer",
                                       {"roles:assign"})).d
    IN Run(d1, InviteOf("routes", 1, EmailOf("u2"), ViewerRoleId)).d

\* The store of TeamDb after the owner has also created the role Editor,
\* which no member holds.
EditorRoleId == TeamDb.nextRole
EditorDb == Run(TeamDb, CreateRoleOf("service", 1, "Editor", {})).d

BeginDeleteRole(p) ==
    \E i \in OrgImpls, r \in RoleIds : Begin(p, DeleteRoleOf(i, 1, r))

BeginAssignRole(p) ==
    \E i \in OrgImpls, t \in Invitees, r \in RoleIds :
       Begin(p, AssignRoleOf(i, 1, t, r, "u1"))

StepDeleteRole(p) == StepOf(p, "deleteRole")
StepAssignRole(p) == StepOf(p, "assignRole")

InitRoles ==
    /\ StoreIs(PendingViewerDb) \/ StoreIs(EditorDb)
    /\ calls = [p \in Procs |-> NoCall]
    /\ last = Returned(NoCall)

NextRoles ==
    \/ \E p \in Procs : BeginDeleteRole(p)
    \/ \E p \in Procs : BeginAssignRole(p)
    \/ \E p \in Procs : BeginAccept(p)
    \/ \E p \in Procs : StepDeleteRole(p)
    \/ \E p \in Procs : StepAssignRole(p)
    \/ \E p \in Procs : StepAccept(p)

SpecRoles == InitRoles /\ [][NextRoles]_vars

\* ------------------------------------------------------------ properties
\* Vocabulary of the properties below.
SystemRolesOf(d, org) == {r \in d.roles : r.org = org /\ r.sys}
PermissionsOfRole(d, rid) == {rp.perm : rp \in {x \in d.rolePerms : x.role = rid}}

\* C3: whenever createOrganization returns successfully, the new
\* organization has exactly two system roles, named Owner and Member; the
\* Owner role holds the whole permission catalog, the Member role holds no
\* permission, and the creator has a membership row bound to the Owner role.
C3_CreateOrganizationBootstraps ==
    \A h \in Handles, u \in Users :
       LET r == Run(Db, CreateOrganizationOf(h, u))
           sys == SystemRolesOf(r.d, r.c.org)
       IN r.c.code = 201 =>
            /\ Cardinality(sys) = 2
            /\ {x.name : x \in sys} = {"Owner", "Member"}
            /\ \A x \in sys :
                  PermissionsOfRole(r.d, x.id) =
                     IF x.name = "Owner" THEN PermissionCatalog ELSE {}
            /\ \E x \in sys :
                  /\ x.name = "Owner"
                  /\ Cardinality({m \in r.d.members :
                        m.org = r.c.org /\ m.user = u /\ m.role = x.id}) = 1

\* createOrganization has just returned 201 and another one can still succeed
C3_Witness ==
    /\ last.op = "createOrganization" /\ last.code = 201
    /\ \E h \in Handles, u \in Users :
          Run(Db, CreateOrganizationOf(h, u)).c.code = 201

\* C4: in every reachable state checkPermission lets (user, org, p) through
\* exactly when the user has a membership row in org whose role holds p,
\* getUserPermissionsForOrganization returns exactly that role's permission
\* set, and a non-member gets deny / the empty set.
C4_PermissionsFollowMembership ==
    \A u \in Users, o \in OrgIds \cup {0} :
       LET rows == {m \in organization_members : m.org = o /\ m.user = u}
           held == {rp.perm : rp \in {x \in organization_role_permissions :
                                         \E m \in rows : x.role = m.role}}
       IN /\ \A p \in PermissionCatalog :
                (checkPermission(Db, u, o, p) = "allow") <=> (p \in held)
          /\ getUserPermissionsForOrganization(Db, u, o) = held
          /\ rows = {} =>
                /\ getUserPermissionsForOrganization(Db, u, o) = {}
                /\ \A p \in PermissionCatalog :
                      checkPermission(Db, u, o, p) = "deny"

\* a role assignment has just succeeded, and one member is let through for
\* a permission that another member and a non-member are denied
C4_Witness ==
    /\ last.op = "assignRole" /\ last.code = 200
    /\ \E u, v, w \in Users, o \in OrgIds, p \in PermissionCatalog :
          /\ MembershipOf(Db, u, o) # {} /\ MembershipOf(Db, v, o) # {}
          /\ MembershipOf(Db, w, o) = {}
          /\ checkPermission(Db, u, o, p) = "allow"
          /\ checkPermission(Db, v, o, p) = "deny"
          /\ checkPermission(Db, w, o, p) = "deny"

\* C5: deleteOrganizationRole of a non-system role fails with 409 and
\* changes nothing while a member holds the role; when no member holds it,
\* the call succeeds and removes the role and its permission rows.
C5_DeleteRoleGuardedByMembers ==
    \A i \in OrgImpls, o \in OrgIds :
       \A role \in {x \in organization_roles : x.org = o /\ ~ x.sys} :
          LET r == Run(Db, DeleteRoleOf(i, o, role.id))
          IN IF \E m \in organization_members : m.role = role.id
             THEN /\ r.c.code = 409
                  /\ r.d = Db
             ELSE /\ r.c.code = 200
                  /\ ~ \E x \in r.d.roles : x.id = role.id
                  /\ ~ \E rp \in r.d.rolePerms : rp.role = role.id
                  /\ r.d.members = organization_members

\* a delete has just been refused because the role is held, while another
\* non-system role with permissions is held by nobody
C5_Witness ==
    /\ last.op = "deleteRole" /\ last.code = 409
    /\ \E x, y \in organization_roles :
          /\ ~ x.sys /\ ~ y.sys
          /\ \E m \in organization_members : m.role = x.id
          /\ ~ \E m \in organization_members : m.role = y.id
          /\ PermissionsOfRole(Db, y.id) # {}

C7_SystemRoleMembersUntouched ==
    \A o \in OrgIds, r \in RoleIds, u \in Users :
       \A m \in {x \in organization_members :
                    x.org = o /\ CurrentRoleIsSystem(Db, x)} :
          /\ \A i \in OrgImpls :
                LET a == Run(Db, AssignRoleOf(i, o, m.user, r, u))
                IN a.c.code = 403 /\ a.d = Db
          /\ LET b == Run(Db, RemoveMemberOf(o, m.user, u))
             IN b.c.code = 403 /\ b.d = Db

\* C8: assignOrganizationMemberRole with a system role of the organization
\* as the new role fails with 403 and leaves the memberships unchanged, for
\* every target and every operator.
C8_SystemRoleNeverAssigned ==
    \A i \in OrgImpls, o \in OrgIds, t \in Users, u \in Users :
       \A role \in SystemRolesOf(Db, o) :
          LET a == Run(Db, AssignRoleOf(i, o, t, role.id, u))
          IN a.c.code = 403 /\ a.d.members = organization_members

\* C9: assignOrganizationMemberRole whose target is the operator fails with
\* 403 and changes nothing, whatever the new role id is and whether or not
\* the operator is a member.
C9_SelfAssignmentRefused ==
    \A i \in OrgImpls, o \in OrgIds, u \in Users, r \in RoleIds \cup {0} :
       LET a == Run(Db, AssignRoleOf(i, o, u, r, u))
       IN a.c.code = 403 /\ a.d = Db

\* C10: two acceptInvitation calls in a row with the same token by the
\* invited user on a pending, unexpired invitation: the first returns 200
\* and leaves the invitation accepted, the second returns 409 and changes
\* neither the invitation nor the membership rows.
C10_SecondAcceptConflicts ==
    \A i \in InvitationImpls, u \in Users :
       \A inv \in {x \in organization_invitations :
                     /\ x.status = "pending"
                     /\ ~ IsExpired(x, clock)
                     /\ EmailMatches(i, x.email, EmailOf(u))} :
          LET first == Run(Db, AcceptOf(i, inv.id, u))
              second == Run(first.d, AcceptOf(i, inv.id, u))
          IN /\ first.c.code = 200
             /\ \E x \in first.d.invs : x.id = inv.id /\ x.status = "accepted"
             /\ second.c.code = 409
             /\ second.d = first.d

\* C1: under every interleaving of the store round trips of concurrent
\* invite, accept and decline calls an invitation leaves "pending" at most
\* once: an invitation that is accepted, declined or expired stays in the
\* store with that status.
C1_TerminalStatusIsFinal ==
    [][\A x \in organization_invitations :
          x.status # "pending" => x \in organization_invitations']_vars

\* C2: two concurrent acceptInvitation calls with the same token and user
\* that both found the invitation pending and unexpired and the user not
\* yet a member leave exactly one membership row and the invitation
\* accepted, and each of them returns 200 or the 409 of the already-member
\* outcome.
C2_ConcurrentAcceptsBothAnswered ==
    \A p, q \in Procs :
       (/\ p # q
        /\ calls[p].op = "accept" /\ calls[q].op = "accept"
        /\ calls[p].pc = "done" /\ calls[q].pc = "done"
        /\ calls[p].token = calls[q].token /\ calls[p].user = calls[q].user
        /\ calls[p].count = 0 /\ calls[q].count = 0)
       => /\ Cardinality({m \in organization_members :
                m.org = calls[p].inv.org /\ m.user = calls[p].user}) = 1
          /\ \E x \in organization_invitations :
                x.id = calls[p].token /\ x.status = "accepted"
          /\ \A c \in {calls[p], calls[q]} :
                \/ c.code = 200
                \/ c.code = 409 /\ c.msg = "already_member_concurrent"

\* C11: the first accept or decline, by any caller, of a pending invitation
\* whose expires_at lies before now returns 410, leaves the invitation
\* expired and the membership rows as they were; every accept or decline
\* of the same token after it returns 409 and changes nothing, so the
\* status stays expired.
C11_ExpiryThenConflict ==
    \A i \in InvitationImpls, u \in Users :
       \A inv \in {x \in organization_invitations :
                     x.status = "pending" /\ x.expires < clock} :
          \A first \in {Run(Db, AcceptOf(i, inv.id, u)),
                        Run(Db, DeclineOf(i, inv.id, u))} :
             /\ first.c.code = 410
             /\ \E x \in first.d.invs : x.id = inv.id /\ x.status = "expired"
             /\ first.d.members = organization_members
             /\ \A j \in InvitationImpls, v \in Users :
                   \A later \in {Run(first.d, AcceptOf(j, inv.id, v)),
                                 Run(first.d, DeclineOf(j, inv.id, v))} :
                      later.c.code = 409 /\ later.d = first.d

C11_Witness ==
    /\ last.code = 410
    /\ \E x \in organization_invitations :
          x.status = "expired" /\ x.expires < clock

\* C12: declineInvitation by the invited address on a pending, unexpired
\* invitation returns 200, leaves the invitation declined and the
\* membership rows exactly as they were; every accept or decline with that
\* token after it returns 409 and leaves the membership rows as they were.
C12_DeclineIsFinal ==
    \A i \in InvitationImpls, u \in Users :
       \A inv \in {x \in organization_invitations :
                     /\ x.status = "pending"
                     /\ ~ (x.expires < clock)
                     /\ x.email = EmailOf(u)} :
          LET first == Run(Db, DeclineOf(i, inv.id, u))
          IN /\ first.c.code = 200
             /\ \E x \in first.d.invs : x.id = inv.id /\ x.status = "declined"
             /\ first.d.members = organization_members
             /\ \A j \in InvitationImpls, v \in Users :
                   \A later \in {Run(first.d, AcceptOf(j, inv.id, v)),
                                 Run(first.d, DeclineOf(j, inv.id, v))} :
                      /\ later.c.code = 409
                      /\ later.d.members = organization_members
                      /\ \E x \in later.d.invs :
                            x.id = inv.id /\ x.status = "declined"

C12_Witness ==
    /\ last.op = "decline" /\ last.code = 200
    /\ \E x \in organization_invitations :
          x.status = "declined" /\ ~ (x.expires < clock)

C15_AcceptCreatesMembership ==
    \A i \in InvitationImpls, u \in Users :
       \A inv \in {x \in organization_invitations :
                     ~ \E m \in organization_members :
                          m.org = x.org /\ m.user = u} :
          LET r == Run(Db, AcceptOf(i, inv.id, u))
              mine == {x \in r.d.members : x.org = inv.org /\ x.user = u}
          IN r.c.code = 200 =>
               /\ Cardinality(mine) = 1
               /\ \A x \in mine : x.role = inv.role
               /\ \E x \in r.d.invs : x.id = inv.id /\ x.status = "accepted"
               /\ r.c.org = inv.org
               /\ r.c.role = inv.role
               /\ r.d.members \ mine = organization_members

C15_Witness ==
    /\ last.op = "accept" /\ last.code = 200
    /\ \E inv \in organization_invitations, m \in organization_members :
          /\ inv.status = "accepted"
          /\ m.org = inv.org /\ m.email = inv.email /\ m.role = inv.role
          /\ EmailOf(m.user) = inv.email

\* C16: in every reachable state inviteUserToOrganization for an address
\* whose user has a membership row in the organization returns 409 and
\* creates no invitation, whether the row comes from the creation of the
\* organization or from the acceptance of an earlier invitation.
C16_MemberIsNotInvited ==
    \A i \in OrgImpls, o \in OrgIds, u \in Users :
       \A role \in {x \in organization_roles : x.org = o} :
          (\E m \in organization_members : m.org = o /\ m.user = u)
          => LET r == Run(Db, InviteOf(i, o, EmailOf(u), role.id))
             IN r.c.code = 409 /\ r.d.invs = organization_invitations

\* C17: inviteUserToOrganization returns 409 and creates no invitation
\* whenever a pending invitation exists for the same organization and
\* address; once every earlier invitation for that organization and address
\* is accepted, declined or expired, and the address belongs to no member,
\* the call succeeds with 201 and creates a pending invitation.
C17_OnePendingInvitation ==
    \A i \in OrgImpls, o \in OrgIds, e \in InvitedEmails :
       \A role \in {x \in organization_roles : x.org = o} :
          LET r == Run(Db, InviteOf(i, o, e, role.id))
              earlier == {x \in organization_invitations :
                            x.org = o /\ x.email = e}
          IN /\ (\E x \in earlier : x.status = "pending")
                => r.c.code = 409 /\ r.d.invs = organization_invitations
             /\ (/\ earlier # {}
                 /\ \A x \in earlier : x.status # "pending"
                 /\ ~ \E m \in organization_members :
                        m.org = o /\ (m.email = e \/ EmailOf(m.user) = e))
                => /\ r.c.code = 201
                   /\ \E x \in r.d.invs \ organization_invitations :
                         x.org = o /\ x.email = e /\ x.status = "pending"

\* C18: createOrganizationRole is all-or-nothing: whenever the call does
\* not return 201, also when the store fails the insert of the role's
\* permissions after the role row was inserted, the roles and the role
\* permissions are as they were before the call, so the organization has
\* no role of the requested name left by that call and a later
\* createOrganizationRole with that name is not refused as a duplicate.
C18_CreateRoleAllOrNothing ==
    \A i \in OrgImpls, o \in OrgIds, n \in RoleNameInputs,
       ps \in PermissionIdInputs :
       \A c \in {CreateRoleOf(i, o, n, ps), CreateRoleFailingOf(i, o, n, ps)} :
          LET r == Run(Db, c)
          IN r.c.code # 201 =>
               /\ r.d.roles = organization_roles
               /\ r.d.rolePerms = organization_role_permissions
               /\ ~ RoleNameTaken(Db, o, n, 0)
                  => Run(r.d, CreateRoleOf(i, o, n, {})).c.code = 201

\* C19: createOrganizationRole returns 409 when the organization already
\* has a role of the requested name and 400 when a requested permission id
\* is not in the catalog (either of the two when both apply), and adds no
\* role and no role permission in these cases; when it returns 201 the new
\* role is not a system role and holds exactly the requested permissions.
C19_CreateRoleRejections ==
    \A i \in OrgImpls, o \in OrgIds, n \in RoleNameInputs,
       ps \in PermissionIdInputs :
       LET r == Run(Db, CreateRoleOf(i, o, n, ps))
           taken == \E x \in organization_roles : x.org = o /\ x.name = n
           unknown == ~ (ps \subseteq PermissionCatalog)
           added == r.d.roles \ organization_roles
       IN /\ taken \/ unknown
             => /\ r.c.code \in (IF taken THEN {409} ELSE {})
                                 \cup (IF unknown THEN {400} ELSE {})
                /\ r.d.roles = organization_roles
                /\ r.d.rolePerms = organization_role_permissions
          /\ r.c.code = 201
             => /\ Cardinality(added) = 1
                /\ \A x \in added :
                      /\ x.org = o /\ x.name = n /\ ~ x.sys
                      /\ PermissionsOfRole(r.d, x.id) = ps

\* C20: whenever updateOrganizationRole returns 200 for a request that
\* carries the permission set P, the role holds exactly P afterwards,
\* whatever it held before, and the permissions of every other role are as
\* they were; the same request issued a second time returns 200 again and
\* changes nothing.  With P empty and the role's own name, the update of a
\* role that is not a system role returns 200 and leaves it without
\* permissions.
C20_UpdateReplacesPermissions ==
    \A i \in OrgImpls, o \in OrgIds :
       \A role \in {x \in organization_roles : x.org = o} :
          /\ \A n \in RoleNameInputs \cup {NoName}, P \in PermissionIdInputs :
                (i = "routes" => n # NoName)
                => LET c == UpdateRoleOf(i, o, role.id, n, P)
                       r == Run(Db, c)
                       again == Run(r.d, c)
                   IN r.c.code = 200 =>
                        /\ PermissionsOfRole(r.d, role.id) = P
                        /\ {x \in r.d.rolePerms : x.role # role.id}
                           = {x \in organization_role_permissions :
                                x.role # role.id}
                        /\ again.c.code = 200
                        /\ again.d = r.d
          /\ ~ role.sys
             => LET r == Run(Db, UpdateRoleOf(i, o, role.id, role.name, {}))
                IN r.c.code = 200 /\ PermissionsOfRole(r.d, role.id) = {}

C20_Witness ==
    /\ last.op = "updateRole" /\ last.code = 200
    /\ \E x \in organization_roles :
          /\ x.name = "Owner" /\ x.sys
          /\ PermissionsOfRole(Db, x.id) = {"roles:assign"}
    /\ \E y \in organization_roles :
          ~ y.sys /\ PermissionsOfRole(Db, y.id) = {}

\* C21: removeMemberFromOrganization returns 403 when the target is the
\* operator, 404 when the target has no membership row in the
\* organization and 403 when the target's current role is a system role,
\* and changes nothing in these cases; otherwise it returns 200, deletes
\* the target's membership row in the organization and nothing else, and
\* afterwards the permission check denies the target every permission in
\* that organization.
C21_RemoveMember ==
    \A o \in OrgIds, t \in Users, u \in Users :
       LET r == Run(Db, RemoveMemberOf(o, t, u))
           rows == {m \in organization_members : m.org = o /\ m.user = t}
       IN IF t = u THEN r.c.code = 403 /\ r.d = Db
          ELSE IF rows = {} THEN r.c.code = 404 /\ r.d = Db
          ELSE IF \E m \in rows : \E x \in organization_roles :
                     x.id = m.role /\ x.sys
          THEN r.c.code = 403 /\ r.d = Db
          ELSE /\ r.c.code = 200
               /\ r.d = [Db EXCEPT !.members = organization_members \ rows]
               /\ \A p \in PermissionCatalog :
                     checkPermission(r.d, t, o, p) = "deny"

C21_Witness ==
    /\ last.op = "removeMember" /\ last.code = 200
    /\ \E m \in organization_members : m.user = "u1"
    /\ ~ \E m \in organization_members : m.user = "u2"

\* C22: an updateOrganizationRole call that does not return 200 leaves the
\* role as it was before the call, with the same name and the same
\* permission set, also when a name collision or a failure of the store
\* while the permissions are replaced ends the call; a role for which a
\* non-empty permission set was requested is not left without permissions
\* by a call that failed.
C22_FailedUpdateChangesNothing ==
    \A i \in OrgImpls, o \in OrgIds :
       \A role \in {x \in organization_roles : x.org = o} :
          \A n \in RoleNameInputs \cup {NoName}, P \in PermissionIdInputs :
             (i = "routes" => n # NoName)
             => \A c \in {UpdateRoleOf(i, o, role.id, n, P),
                          UpdateRoleFailingOf(i, o, role.id, n, P)} :
                   LET r == Run(Db, c)
                   IN r.c.code # 200 =>
                        /\ role \in r.d.roles
                        /\ PermissionsOfRole(r.d, role.id)
                           = PermissionsOfRole(Db, role.id)

\* C23: a createOrganization call that does not return 201, also one that
\* fails after the organization row was inserted, leaves no row of its
\* own behind: organizations, roles, role permissions and memberships are
\* as before the call, so every organization in the store has its Owner
\* and Member system roles and a member bound to its Owner role.
C23_FailedCreateOrganizationUndone ==
    \A h \in Handles, u \in Users :
       \A c \in {CreateOrganizationOf(h, u), CreateOrganizationFailingOf(h, u)} :
          LET r == Run(Db, c)
          IN r.c.code # 201 =>
               /\ r.d.orgs = organizations
               /\ r.d.roles = organization_roles
               /\ r.d.rolePerms = organization_role_permissions
               /\ r.d.members = organization_members
               /\ \A o \in r.d.orgs :
                     \E x \in SystemRolesOf(r.d, o.id) :
                        /\ x.name = "Owner"
                        /\ \E m \in r.d.members : m.org = o.id /\ m.role = x.id

\* C24: an invitation, once created, is in the store in every later state:
\* no call of the role and membership operations removes an invitation
\* record, and the deletion of the role an invitation refers to leaves
\* the invitation in place.
C24_InvitationsAreKept ==
    [][\A x \in organization_invitations :
          \E y \in organization_invitations' : y.id = x.id]_vars

\* C25: accept and decline check the token, then the status, then the
\* expiry, then the caller's address: an unknown token returns 404; an
\* invitation that is not pending returns 409 whatever its expires_at and
\* whoever calls; a pending invitation past its expires_at returns 410 and
\* is set to expired also when the caller's address is not the invited
\* one.  Nothing else changes in any of these cases.
C25_CheckOrder ==
    \A i \in InvitationImpls, u \in Users, t \in Tokens :
       \A r \in {Run(Db, AcceptOf(i, t, u)), Run(Db, DeclineOf(i, t, u))} :
          LET rows == {x \in organization_invitations : x.id = t}
          IN /\ rows = {} => r.c.code = 404 /\ r.d = Db
             /\ \A x \in rows :
                   /\ x.status # "pending" => r.c.code = 409 /\ r.d = Db
                   /\ (x.status = "pending" /\ x.expires < clock)
                      => /\ r.c.code = 410
                         /\ r.d = [Db EXCEPT !.invs =
                               (@ \ {x}) \cup {[x EXCEPT !.status = "expired"]}]

C25_Witness ==
    /\ last.op \in {"accept", "decline"} /\ last.code = 409
    /\ \E x \in organization_invitations :
          x.status \in {"accepted", "declined"} /\ x.expires < clock
    /\ \E y \in organization_invitations :
          /\ y.status = "expired"
          /\ \A u \in Users : y.email # EmailOf(u)

\* C26: updateOrganizationRole on a system role returns 403 and changes
\* nothing exactly when the request carries a name other than the role's
\* current name; a request on a system role that carries only permission
\* ids of the catalog, or these and the unchanged name, returns 200 and
\* leaves the role with exactly the requested permissions.
C26_SystemRoleUpdate ==
    \A i \in OrgImpls, o \in OrgIds :
       \A role \in SystemRolesOf(Db, o) :
          \A n \in RoleNameInputs \cup {NoName},
             P \in {ps \in PermissionIdInputs : ps \subseteq PermissionCatalog} :
             (i = "routes" => n # NoName)
             => LET r == Run(Db, UpdateRoleOf(i, o, role.id, n, P))
                IN IF n # NoName /\ n # role.name
                   THEN r.c.code = 403 /\ r.d = Db
                   ELSE /\ r.c.code = 200
                        /\ role \in r.d.roles
                        /\ PermissionsOfRole(r.d, role.id) = P

\* C27: under every interleaving of the store round trips of
\* deleteOrganizationRole with concurrent acceptInvitation and
\* assignOrganizationMemberRole calls, no role leaves the store while a
\* member holds it and no membership row leaves the store: a row created
\* with or moved to the role between the member count and the delete of
\* deleteOrganizationRole is still there afterwards.
C27_DeleteRoleKeepsMembers ==
    [][/\ \A r \in organization_roles :
             (~ \E x \in organization_roles' : x.id = r.id)
             => ~ \E m \in organization_members : m.role = r.id
       /\ \A m \in organization_members :
             \E x \in organization_members' : x.org = m.org /\ x.user = m.user
      ]_vars

\* C28: in every reachable state, also those reached by interleaving the
\* store round trips of concurrent inviteUserToOrganization calls, an
\* organization has at most one pending invitation per invited address.
C28_OnePendingPerAddress ==
    \A x, y \in organization_invitations :
       (/\ x.status = "pending" /\ y.status = "pending"
        /\ x.org = y.org /\ x.email = y.email)
       => x.id = y.id

\* The role ids that belong to an organization other than org.
RolesOfOtherOrgs(org) == {r.id : r \in {x \in organization_roles : x.org # org}}

\* every membership and every invitation names a role of its own
\* organization
RolesAreOfOwnOrg ==
    /\ \A m \in organization_members :
          \E r \in organization_roles : r.id = m.role /\ r.org = m.org
    /\ \A x \in organization_invitations :
          \E r \in organization_roles : r.id = x.role /\ r.org = x.org

\* inviteUserToOrganization with a role of another organization: 400, and
\* the store is left as it was
InviteWithForeignRoleRefused ==
    \A i \in OrgImpls, o \in OrgIds, e \in InvitedEmails :
       \A r \in RolesOfOtherOrgs(o) :
          LET res == Run(Db, InviteOf(i, o, e, r))
          IN res.c.code = 400 /\ res.d = Db

OwnersOf(members, roles, org) ==
    {m \in members :
        /\ m.org = org
        /\ \E r \in roles : /\ r.id = m.role /\ r.org = org /\ r.sys
                            /\ r.name = DEFAULT_ORG_ADMIN_ROLE_NAME}

\* C30: an organization that createOrganization has set up always has at
\* least one member holding its Owner role, and no call lowers the number
\* of members holding it.
C30_OwnerIsKept ==
    [][\A o \in organizations :
          /\ OwnersOf(organization_members, organization_roles, o.id) # {}
          /\ Cardinality(OwnersOf(organization_members', organization_roles',
                                  o.id))
             >= Cardinality(OwnersOf(organization_members, organization_roles,
                                     o.id))]_vars

====
